---- MODULE Spec2Model ----
(***************************************************************************)
(* Model of the job engine of src/src/api/jobs.py over the store of        *)
(* src/src/db/supabase_client.py, and of the range finders of              *)
(* src/src/utils/url_generator.py.                                         *)
(*                                                                         *)
(* Atomicity.  The store client is synchronous: create_scrape_job,         *)
(* update_url_status, update_job_status, get_job_status and add_job_log    *)
(* contain no await, so awaiting them never yields to the event loop.  A   *)
(* coroutine of jobs.py therefore yields only at the admission gate        *)
(* (async with semaphore), at process_urls (fetch and extraction) and at   *)
(* asyncio.gather.  One action is the code between two such points.        *)
(***************************************************************************)
EXTENDS Integers, Sequences, FiniteSets, TLC

\* ------------------------------------------------------------------ bounds
MaxTasks == 6
MaxCancels == 2
MaxRetries == 1      \* retry_failed_urls calls in one behaviour
MaxOpsTasks == 3     \* job_urls of a job that is also retried
ScenarioTasks == 8   \* job_urls of the job of the end-to-end scenario

MaxMonth == 100      \* largest month code a manufacturer may have data for

\* ------------------------------------------------------- program constants
MAX_CONCURRENT == 5
max_search == 100
max_allowed_month == 86
stop_after_attempt == 3
scrape_attempts == 3

VARIABLES
    jobStatus,            \* scrape_jobs.status ("none": no row yet)
    urls,                 \* job_urls.status, in insertion order
    scraped,              \* number of scraped_data rows of each job_url
    total_urls,           \* scrape_jobs.total_urls
    completed_urls,       \* scrape_jobs.completed_urls
    progress_percentage,  \* scrape_jobs.progress_percentage
    startView,            \* start_job: the job read at line 187
    taskPc,               \* start_job: position of each process_single_url
    passPc,               \* start_job: position of process_all
    cancelLog,            \* what each cancel_job call returned, in call order
    createRet,            \* create_job: "none" before the call, then "created"
                          \*             (it returned) or "raised" (HTTP 500)
    raised,               \* start_job: the job_urls whose process_urls raised
    retryPc,              \* retry_failed_urls: "idle", or "scraping" (in process_urls)
    retryList,            \* retry_failed_urls: failed_urls, as positions in job_urls
    retryIdx,             \* retry_failed_urls: position of the loop in failed_urls
    retryCompleted,       \* retry_failed_urls: the local counter completed
    retryLog,             \* what each retry_failed_urls call returned, in call order
    admits,               \* how many times each job_url was written in_progress
                          \* by a process_single_url
    startView2,           \* a second start_job call: the job read at line 187
    taskPc2,              \* a second start_job call: position of each process_single_url
    passPc2,              \* a second start_job call: position of its process_all
    fValid,               \* finder: the month codes whose page exists
    fWhich,               \* finder: "first" or "last"
    fBound,               \* finder: min_month or max_month, as passed
    fFail,                \* finder: the month codes whose request fails every time
    fPc,                  \* finder: "call" before the call, then "done" (it
                          \*         returned) or "raised" (an exception left it)
    fResult,              \* finder: the value returned (0 before the call)
    fLog,                 \* finder: the month codes requested from the site, in order
    sPath,                \* submission: "manufacturer" (create_manufacturer_job)
                          \*             or "scraper" (run_scraper_job)
    sCodes,               \* submission: the manufacturer codes requested, in order
    sStart,               \* submission: the explicit start month ({} when absent)
    sEnd,                 \* submission: the explicit end month ({} when absent)
    sValid,               \* submission: the month codes that exist, per manufacturer
    sPc,                  \* submission: "call" before the call, "done" after it
    sOutcome,             \* submission: "created" or "rejected" ("none" before)
    sRanges,              \* submission: the resolved range of each manufacturer reached
    tAnswers,             \* fetch: what the site answers to each attempt in turn
    tExtract,             \* fetch: what the extraction does with a page
    tJob,                 \* fetch: the job status read after process_urls
    tPc,                  \* fetch: "call" before process_urls, "done" after it
    tAttempts,            \* fetch: the requests made for the URL
    tStatus,              \* fetch: the status written for the job_url
    sUrls                 \* submission: the (manufacturer, month) of each URL handed on

retryVars == <<retryPc, retryList, retryIdx, retryCompleted, retryLog>>

againVars == <<admits, startView2, taskPc2, passPc2>>

jobVars == <<jobStatus, urls, scraped, total_urls, completed_urls,
             progress_percentage, startView, taskPc, passPc, cancelLog,
             createRet, raised, retryVars, againVars>>

findVars == <<fValid, fWhich, fBound, fFail, fPc, fResult, fLog>>

fetchVars == <<tAnswers, tExtract, tJob, tPc, tAttempts, tStatus>>

subVars == <<sPath, sCodes, sStart, sEnd, sValid, sPc, sOutcome, sRanges, sUrls>>

\* What process_urls([url], data_points) hands back to jobs.py:
\*   "value"  {"value": [record], "errors": None}
\*   "empty"  {"value": [], "errors": [...]}   (fetch or extraction failed)
\*   "error"  {"error": ...}
\*   "raise"  an exception (the function jobs.py imports takes a third
\*            argument and raises TypeError when called with two)
Outcomes == {"value", "empty", "error", "raise"}

\* ------------------------------------------------------------------ store

\* create_scrape_job: one job row and one pending job_url per URL.
create_scrape_job(n) ==
    [status |-> "pending",
     urls |-> [i \in 1..n |-> "pending"],
     total_urls |-> n,
     completed_urls |-> 0,
     progress_percentage |-> 0]

\* The two inserts of create_scrape_job that may fail.
CreateFaults == {"job_insert", "url_insert"}

\* create_scrape_job when one of its inserts raises: the job row is inserted
\* first, the job_urls after it in one insert, and nothing undoes the job row
\* when the second insert fails.
create_scrape_job_failing(n, fault) ==
    IF fault = "job_insert"
    THEN [status |-> "none", urls |-> <<>>, total_urls |-> 0,
          completed_urls |-> 0, progress_percentage |-> 0]
    ELSE [status |-> "pending", urls |-> <<>>, total_urls |-> n,
          completed_urls |-> 0, progress_percentage |-> 0]

\* get_job_status: a job that is in_progress is returned from the basic
\* query, whose job_urls carry the status only; any other job from the full
\* query, whose job_urls carry every column (id, url, ...).  The full query
\* joins job_urls!inner, so it returns no row for a job without job_urls.
get_job_status(js, u) ==
    [found |-> js # "none" /\ (js = "in_progress" \/ Len(u) > 0),
     status |-> js,
     shape |-> IF js = "in_progress" THEN "basic" ELSE "full",
     job_urls |-> u]

\* update_url_status without its .eq('id', ...) filter: every row is written.
update_url_status_AllRows(u, i, status) == [j \in DOMAIN u |-> status]

\* update_url_status(id, status): the status column of one job_url.
update_url_status(u, i, status) == [u EXCEPT ![i] = status]

\* update_url_status(id, status, data): a scraped_data row when data is truthy.
store_data(s, i, hasData) == IF hasData THEN [s EXCEPT ![i] = @ + 1] ELSE s

Count(u, S) == Cardinality({i \in DOMAIN u : u[i] \in S})

\* ------------------------------------------------------------- start_job

\* The positions of process_all at which the coroutines of gather run: in
\* gather, and after an exception left gather, which does not stop the other
\* coroutines ("abandoned": the handler of process_all wrote the job failed;
\* "lost": that write raised as well).
PassRunning == {"gather", "abandoned", "lost"}

\* Tasks inside the admission gate: admitted and not yet finished.
InGate == {i \in DOMAIN taskPc : taskPc[i] = "scraping"}

\* The semaphore letting a task in while MAX_CONCURRENT are already inside.
GateOpen_OneMore(inside) == inside <= MAX_CONCURRENT

\* async with semaphore: a task enters while fewer than MAX_CONCURRENT are inside.
GateOpen(inside) == inside < MAX_CONCURRENT

\* create_job: create_scrape_job, then start_job up to create_task(process_all):
\* the job is read, set in_progress, and one process_single_url is made for
\* each job_url that was pending.  A job without job_urls is not found by
\* start_job: IndexError, its handler writes the job failed, and create_job
\* answers 500.
CreateJob(n) ==
    /\ jobStatus = "none"
    /\ createRet = "none"
    /\ LET db == create_scrape_job(n)
           view == get_job_status(db.status, db.urls)
       IN  /\ urls' = db.urls
           /\ scraped' = [i \in 1..n |-> 0]
           /\ total_urls' = db.total_urls
           /\ completed_urls' = db.completed_urls
           /\ progress_percentage' = db.progress_percentage
           /\ startView' = view
           /\ IF view.found
              THEN /\ jobStatus' = "in_progress"
                   /\ taskPc' = [i \in 1..n |->
                                   IF view.job_urls[i] = "pending" THEN "waiting" ELSE "none"]
                   /\ passPc' = "gather"
                   /\ createRet' = "created"
              ELSE /\ jobStatus' = "failed"
                   /\ taskPc' = <<>>
                   /\ passPc' = "idle"
                   /\ createRet' = "raised"
    /\ raised' = {}
    /\ admits' = [i \in 1..n |-> 0]
    /\ UNCHANGED <<cancelLog, retryVars, startView2, taskPc2, passPc2>>
    /\ UNCHANGED <<findVars, subVars, fetchVars>>

\* process_single_url, from the gate to process_urls: the first cancellation
\* check, then the in_progress write.  gather starts the coroutines in list
\* order and the semaphore wakes its waiters in that order.
AdmitStatus(js) == IF js = "cancelled" THEN "cancelled" ELSE "in_progress"

Admit(i) ==
    /\ passPc \in PassRunning
    /\ taskPc[i] = "waiting"
    /\ \A j \in 1..(i - 1) : taskPc[j] # "waiting"
    /\ GateOpen(Cardinality(InGate))
    /\ LET view == get_job_status(jobStatus, urls)
           st == AdmitStatus(view.status)
       IN  IF st = "cancelled"
           THEN /\ urls' = IF startView.job_urls[i] \in {"pending", "in_progress"}
                           THEN update_url_status(urls, i, "cancelled")
                           ELSE urls
                /\ taskPc' = [taskPc EXCEPT ![i] = "done"]
                /\ admits' = admits
           ELSE /\ urls' = update_url_status(urls, i, st)
                /\ taskPc' = [taskPc EXCEPT ![i] = "scraping"]
                /\ admits' = [admits EXCEPT ![i] = @ + 1]
    /\ UNCHANGED <<jobStatus, scraped, total_urls, completed_urls,
                   progress_percentage, startView, passPc, cancelLog,
                   createRet, raised, retryVars, startView2, taskPc2, passPc2>>
    /\ UNCHANGED <<findVars, subVars, fetchVars>>

\* create_job when an insert of create_scrape_job raises: the exception
\* leaves create_scrape_job, start_job is not reached, and create_job
\* answers 500.
CreateJobFault(n, fault) ==
    /\ jobStatus = "none"
    /\ createRet = "none"
    /\ LET db == create_scrape_job_failing(n, fault)
       IN  /\ jobStatus' = db.status
           /\ urls' = db.urls
           /\ scraped' = <<>>
           /\ total_urls' = db.total_urls
           /\ completed_urls' = db.completed_urls
           /\ progress_percentage' = db.progress_percentage
    /\ createRet' = "raised"
    /\ UNCHANGED <<startView, taskPc, passPc, cancelLog, raised, retryVars>>
    /\ UNCHANGED <<againVars, findVars, subVars, fetchVars>>

\* process_single_url without its except branch: nothing is written for a
\* job_url whose process_urls raised.
ResultStatus_NoHandler(js, outcome) ==
    IF outcome = "raise" THEN "in_progress"
    ELSE IF js = "cancelled" THEN "cancelled"
    ELSE IF outcome \in {"error", "empty"} THEN "failed"
    ELSE "completed"

\* process_single_url, from the return of process_urls to the end: an
\* exception goes to the handler, which writes failed; otherwise the second
\* cancellation check, then failed or completed from the result.
ResultStatus(js, outcome) ==
    IF outcome = "raise" THEN "failed"
    ELSE IF js = "cancelled" THEN "cancelled"
    ELSE IF outcome \in {"error", "empty"} THEN "failed"
    ELSE "completed"

Finish(i, outcome) ==
    /\ passPc \in PassRunning
    /\ taskPc[i] = "scraping"
    /\ LET view == get_job_status(jobStatus, urls)
           st == ResultStatus(view.status, outcome)
       IN  /\ urls' = update_url_status(urls, i, st)
           /\ scraped' = store_data(scraped, i, st = "completed")
    /\ taskPc' = [taskPc EXCEPT ![i] = "done"]
    /\ raised' = IF outcome = "raise" THEN raised \cup {i} ELSE raised
    /\ UNCHANGED <<jobStatus, total_urls, completed_urls, progress_percentage,
                   startView, passPc, cancelLog, createRet, retryVars>>
    /\ UNCHANGED <<againVars, findVars, subVars, fetchVars>>

\* process_single_url when the store raises at the status write that follows
\* process_urls: the exception goes to the handler, whose own write of failed
\* either succeeds or raises too; in the second case nothing is written for
\* the job_url and the exception leaves the coroutine.
FinishWriteFails(i, handlerOk) ==
    /\ passPc \in PassRunning
    /\ taskPc[i] = "scraping"
    /\ IF handlerOk
       THEN /\ urls' = update_url_status(urls, i, "failed")
            /\ taskPc' = [taskPc EXCEPT ![i] = "done"]
       ELSE /\ urls' = urls
            /\ taskPc' = [taskPc EXCEPT ![i] = "escaped"]
    /\ UNCHANGED <<jobStatus, scraped, total_urls, completed_urls,
                   progress_percentage, startView, passPc, cancelLog,
                   createRet, raised, retryVars>>
    /\ UNCHANGED <<againVars, findVars, subVars, fetchVars>>

\* process_all when an exception leaves gather: gather hands the first
\* exception to process_all at once and lets the other coroutines run on; the
\* handler of process_all writes the job failed, unless that write raises too.
GatherRaises(writeOk) ==
    /\ passPc = "gather"
    /\ \E i \in DOMAIN taskPc : taskPc[i] = "escaped"
    /\ jobStatus' = IF writeOk THEN "failed" ELSE jobStatus
    /\ passPc' = IF writeOk THEN "abandoned" ELSE "lost"
    /\ UNCHANGED <<urls, scraped, total_urls, completed_urls, progress_percentage,
                   startView, taskPc, cancelLog, createRet, raised, retryVars>>
    /\ UNCHANGED <<againVars, findVars, subVars, fetchVars>>

\* The final status without its last branch: a job with failures is never failed.
FinalStatus_NoFailed(completed, failed) ==
    IF failed = 0 THEN "completed" ELSE "partial_success"

\* process_all after gather: the final status from the counts of completed
\* and failed job_urls.
FinalStatus(completed, failed) ==
    IF failed = 0 THEN "completed"
    ELSE IF completed > 0 THEN "partial_success"
    ELSE "failed"

CompletionStatus(view) ==
    IF ~view.found \/ Len(view.job_urls) = 0
    THEN "failed"    \* "Could not find job", "No URLs found for job": the
                     \* handler writes failed
    ELSE FinalStatus(Count(view.job_urls, {"completed"}),
                     Count(view.job_urls, {"failed"}))

Complete ==
    /\ passPc = "gather"
    /\ \A i \in DOMAIN taskPc : taskPc[i] \in {"none", "done"}
    /\ jobStatus' = CompletionStatus(get_job_status(jobStatus, urls))
    /\ passPc' = "done"
    /\ UNCHANGED <<urls, scraped, total_urls, completed_urls, progress_percentage,
                   startView, taskPc, cancelLog, createRet, raised, retryVars>>
    /\ UNCHANGED <<againVars, findVars, subVars, fetchVars>>

\* ------------------------------------------- start_job, a second call

\* POST /jobs/{job_id}/start on a job that create_job has started: the job is
\* read and written in_progress whatever its status, and a process_single_url
\* with a semaphore of its own is made for each job_url that is pending in
\* what was read.  No job row read: IndexError, the handler writes the job
\* failed.
StartAgain ==
    /\ createRet = "created"
    /\ passPc2 = "idle"
    /\ LET view == get_job_status(jobStatus, urls)
       IN  /\ startView2' = view
           /\ IF view.found
              THEN /\ jobStatus' = "in_progress"
                   /\ taskPc2' = [i \in DOMAIN urls |->
                                    IF view.job_urls[i] = "pending" THEN "waiting" ELSE "none"]
                   /\ passPc2' = "gather"
              ELSE /\ jobStatus' = "failed"
                   /\ taskPc2' = <<>>
                   /\ passPc2' = "raised"
    /\ UNCHANGED <<urls, scraped, total_urls, completed_urls, progress_percentage,
                   startView, taskPc, passPc, cancelLog, createRet, raised,
                   retryVars, admits>>
    /\ UNCHANGED <<findVars, subVars, fetchVars>>

InGate2 == {i \in DOMAIN taskPc2 : taskPc2[i] = "scraping"}

\* process_single_url of the second call, from the gate to process_urls.  A
\* job_url of the basic query has no id: the KeyError of job_url['id'] goes to
\* the handler, which raises it again, and the exception leaves the coroutine
\* with nothing written.
AdmitAgain(i) ==
    /\ passPc2 \in PassRunning
    /\ taskPc2[i] = "waiting"
    /\ \A j \in 1..(i - 1) : taskPc2[j] # "waiting"
    /\ GateOpen(Cardinality(InGate2))
    /\ LET view == get_job_status(jobStatus, urls)
           st == AdmitStatus(view.status)
       IN  IF startView2.shape = "basic"
           THEN /\ urls' = urls
                /\ taskPc2' = [taskPc2 EXCEPT ![i] = "escaped"]
                /\ admits' = admits
           ELSE IF st = "cancelled"
           THEN /\ urls' = IF startView2.job_urls[i] \in {"pending", "in_progress"}
                           THEN update_url_status(urls, i, "cancelled")
                           ELSE urls
                /\ taskPc2' = [taskPc2 EXCEPT ![i] = "done"]
                /\ admits' = admits
           ELSE /\ urls' = update_url_status(urls, i, st)
                /\ taskPc2' = [taskPc2 EXCEPT ![i] = "scraping"]
                /\ admits' = [admits EXCEPT ![i] = @ + 1]
    /\ UNCHANGED <<jobStatus, scraped, total_urls, completed_urls,
                   progress_percentage, startView, taskPc, passPc, cancelLog,
                   createRet, raised, retryVars, startView2, passPc2>>
    /\ UNCHANGED <<findVars, subVars, fetchVars>>

\* process_single_url of the second call, from the return of process_urls to
\* the end.
FinishAgain(i, outcome) ==
    /\ passPc2 \in PassRunning
    /\ taskPc2[i] = "scraping"
    /\ LET view == get_job_status(jobStatus, urls)
           st == ResultStatus(view.status, outcome)
       IN  /\ urls' = update_url_status(urls, i, st)
           /\ scraped' = store_data(scraped, i, st = "completed")
    /\ taskPc2' = [taskPc2 EXCEPT ![i] = "done"]
    /\ UNCHANGED <<jobStatus, total_urls, completed_urls, progress_percentage,
                   startView, taskPc, passPc, cancelLog, createRet, raised,
                   retryVars, admits, startView2, passPc2>>
    /\ UNCHANGED <<findVars, subVars, fetchVars>>

\* process_all of the second call when an exception leaves gather: its
\* handler writes the job failed.
GatherRaisesAgain ==
    /\ passPc2 = "gather"
    /\ \E i \in DOMAIN taskPc2 : taskPc2[i] = "escaped"
    /\ jobStatus' = "failed"
    /\ passPc2' = "abandoned"
    /\ UNCHANGED <<urls, scraped, total_urls, completed_urls, progress_percentage,
                   startView, taskPc, passPc, cancelLog, createRet, raised,
                   retryVars, admits, startView2, taskPc2>>
    /\ UNCHANGED <<findVars, subVars, fetchVars>>

\* process_all of the second call after gather.
CompleteAgain ==
    /\ passPc2 = "gather"
    /\ \A i \in DOMAIN taskPc2 : taskPc2[i] \in {"none", "done"}
    /\ jobStatus' = CompletionStatus(get_job_status(jobStatus, urls))
    /\ passPc2' = "done"
    /\ UNCHANGED <<urls, scraped, total_urls, completed_urls, progress_percentage,
                   startView, taskPc, passPc, cancelLog, createRet, raised,
                   retryVars, admits, startView2, taskPc2>>
    /\ UNCHANGED <<findVars, subVars, fetchVars>>

\* ------------------------------------------------------------ cancel_job

\* The guard of cancel_job letting a cancelled job through.
Cancellable_AlsoCancelled(status) ==
    status \in {"in_progress", "pending", "cancelled"}

Cancellable(status) == status \in {"in_progress", "pending"}

\* cancel_job, whole handler.  No job row: HTTPException, caught by the
\* handler's own except ("not_found": success False, 404 in the message).  Job not cancellable: refused before any write.
\* Otherwise the job is written cancelled, then each job_url of the job read
\* at the top that was pending or in_progress is written cancelled by its
\* id; a job_url of the basic query has no id, and the KeyError ends the
\* handler in its except branch.
cancel_job(js, u) ==
    LET view == get_job_status(js, u)
        live == {i \in DOMAIN view.job_urls :
                    view.job_urls[i] \in {"in_progress", "pending"}}
    IN  IF ~view.found
        THEN [ret |-> "not_found", status |-> js, urls |-> u]
        ELSE IF ~Cancellable(view.status)
        THEN [ret |-> "refused", status |-> js, urls |-> u]
        ELSE IF live # {} /\ view.shape = "basic"
        THEN [ret |-> "error", status |-> "cancelled", urls |-> u]
        ELSE [ret |-> "success", status |-> "cancelled",
              urls |-> [i \in DOMAIN u |->
                          IF i \in live THEN "cancelled" ELSE u[i]]]

CancelJob ==
    /\ Len(cancelLog) < MaxCancels
    /\ LET r == cancel_job(jobStatus, urls)
       IN  /\ jobStatus' = r.status
           /\ urls' = r.urls
           /\ cancelLog' = Append(cancelLog, r.ret)
    /\ UNCHANGED <<scraped, total_urls, completed_urls, progress_percentage,
                   startView, taskPc, passPc, createRet, raised, retryVars>>
    /\ UNCHANGED <<againVars, findVars, subVars, fetchVars>>

\* ----------------------------------------------------- retry_failed_urls

\* update_job_progress leaving progress_percentage at 0.
update_job_progress_NoPercentage(total, completed) ==
    [total_urls |-> total,
     completed_urls |-> completed,
     progress_percentage |-> 0]

\* update_job_progress: total_urls, completed_urls and progress_percentage of
\* the job row.  The code stores the quotient as a float; its integer part is
\* kept here.
update_job_progress(total, completed) ==
    [total_urls |-> total,
     completed_urls |-> completed,
     progress_percentage |-> IF total > 0 THEN (completed * 100) \div total ELSE 0]

\* failed_urls taking the cancelled job_urls as well.
failed_urls_AlsoCancelled(view) ==
    SelectSeq([i \in 1..Len(view.job_urls) |-> i],
              LAMBDA i : view.job_urls[i] \in {"failed", "cancelled"})

\* failed_urls: the job_urls of the job read whose status is failed, in order.
failed_urls(view) ==
    SelectSeq([i \in 1..Len(view.job_urls) |-> i],
              LAMBDA i : view.job_urls[i] = "failed")

\* The status a retried job_url is given from what process_urls handed back:
\* failed for an exception or an "error" key, completed otherwise (also for an
\* empty "value").
RetryStatus(outcome) ==
    IF outcome \in {"raise", "error"} THEN "failed" ELSE "completed"

RetryFinalStatus(completed, total) ==
    IF completed = total THEN "completed" ELSE "partial_success"

\* retry_failed_urls up to its first process_urls.  No failed job_url: it
\* returns before any write.  Otherwise the job is written in_progress and
\* the loop starts; a job_url of the basic query has no id, the KeyError is
\* raised again inside the loop's handler and reaches the outer handler,
\* which writes the job failed.  A job that get_job_status does not return:
\* IndexError, and the outer handler writes failed to the row if there is one.
RetryStart ==
    /\ Len(retryLog) < MaxRetries
    /\ retryPc = "idle"
    /\ LET view == get_job_status(jobStatus, urls)
           failed == failed_urls(view)
       IN  IF ~view.found
           THEN /\ jobStatus' = IF jobStatus = "none" THEN "none" ELSE "failed"
                /\ retryLog' = Append(retryLog, "error")
                /\ UNCHANGED <<urls, retryPc, retryList, retryIdx>>
           ELSE IF Len(failed) = 0
           THEN /\ retryLog' = Append(retryLog, "nothing")
                /\ UNCHANGED <<jobStatus, urls, retryPc, retryList, retryIdx>>
           ELSE IF view.shape = "basic"
           THEN /\ jobStatus' = "failed"
                /\ retryLog' = Append(retryLog, "error")
                /\ UNCHANGED <<urls, retryPc, retryList, retryIdx>>
           ELSE /\ jobStatus' = "in_progress"
                /\ urls' = update_url_status(urls, failed[1], "in_progress")
                /\ retryPc' = "scraping"
                /\ retryList' = failed
                /\ retryIdx' = 1
                /\ UNCHANGED retryLog
    /\ retryCompleted' = 0
    /\ UNCHANGED <<scraped, total_urls, completed_urls, progress_percentage,
                   startView, taskPc, passPc, cancelLog, createRet, raised>>
    /\ UNCHANGED <<againVars, findVars, subVars, fetchVars>>

\* retry_failed_urls from the return of one process_urls to the next one, or
\* to the end: the status of the job_url and its data, the progress of the
\* job (not after an exception), then the next failed job_url is written
\* in_progress, or the final status is written and the handler returns.
RetryStep(outcome) ==
    /\ retryPc = "scraping"
    /\ LET i == retryList[retryIdx]
           st == RetryStatus(outcome)
           completed == IF st = "completed" THEN retryCompleted + 1 ELSE retryCompleted
           total == Len(retryList)
           progress == update_job_progress(total, completed)
           u1 == update_url_status(urls, i, st)
       IN  /\ scraped' = store_data(scraped, i, outcome = "value")
           /\ retryCompleted' = completed
           /\ IF outcome = "raise"
              THEN UNCHANGED <<total_urls, completed_urls, progress_percentage>>
              ELSE /\ total_urls' = progress.total_urls
                   /\ completed_urls' = progress.completed_urls
                   /\ progress_percentage' = progress.progress_percentage
           /\ IF retryIdx < total
              THEN /\ urls' = update_url_status(u1, retryList[retryIdx + 1], "in_progress")
                   /\ retryIdx' = retryIdx + 1
                   /\ UNCHANGED <<jobStatus, retryPc, retryLog>>
              ELSE /\ urls' = u1
                   /\ jobStatus' = RetryFinalStatus(completed, total)
                   /\ retryPc' = "idle"
                   /\ retryLog' = Append(retryLog, RetryFinalStatus(completed, total))
                   /\ UNCHANGED retryIdx
    /\ UNCHANGED <<retryList, startView, taskPc, passPc, cancelLog, createRet, raised>>
    /\ UNCHANGED <<againVars, findVars, subVars, fetchVars>>

\* ------------------------------------------------------- get_job_progress

\* get_job_progress: the "progress" object of the response, from the job row
\* and the statuses of its job_urls.
get_job_progress(view) ==
    [total_urls |-> total_urls,
     completed_urls |-> completed_urls,
     percentage |-> progress_percentage,
     completed |-> Count(view.job_urls, {"completed"}),
     failed |-> Count(view.job_urls, {"failed"}),
     in_progress |-> Count(view.job_urls, {"in_progress"}),
     pending |-> Count(view.job_urls, {"pending"})]

\* ---------------------------------------------------------- url_generator

Max(a, b) == IF a >= b THEN a ELSE b

\* The probe state of one find call: the cache (a set, filled with the codes
\* found to exist) and the requests made to the site so far.
NoProbes == [cache |-> {}, log |-> <<>>]

\* check_month_sync / check_url_sync: a cached code is answered True without
\* a request; otherwise one request, and the code is cached when it exists.
check_month_sync(V, month, st) ==
    IF month \in st.cache
    THEN [hit |-> TRUE, st |-> st]
    ELSE [hit |-> month \in V,
          st |-> [cache |-> IF month \in V THEN st.cache \cup {month} ELSE st.cache,
                  log |-> Append(st.log, month)]]

RECURSIVE binary_search_first_loop(_, _, _, _, _)
binary_search_first_loop(V, left, right, first_valid, st) ==
    IF left <= right
    THEN LET mid == (left + right) \div 2
             c == check_month_sync(V, mid, st)
         IN  IF c.hit
             THEN binary_search_first_loop(V, left, mid - 1, mid, c.st)
             ELSE binary_search_first_loop(V, mid + 1, right, first_valid, c.st)
    ELSE [result |-> first_valid, st |-> st]

binary_search_first(V, left, right, st) ==
    binary_search_first_loop(V, left, right, right, st)

RECURSIVE binary_search_last_loop(_, _, _, _, _)
binary_search_last_loop(V, left, right, last_valid, st) ==
    IF left <= right
    THEN LET mid == (left + right) \div 2
             c == check_month_sync(V, mid, st)
         IN  IF c.hit
             THEN binary_search_last_loop(V, mid + 1, right, mid, c.st)
             ELSE binary_search_last_loop(V, left, mid - 1, last_valid, c.st)
    ELSE [result |-> last_valid, st |-> st]

\* binary_search_last searching the lower half after a hit, as binary_search_first does.
RECURSIVE binary_search_last_Lower_loop(_, _, _, _, _)
binary_search_last_Lower_loop(V, left, right, last_valid, st) ==
    IF left <= right
    THEN LET mid == (left + right) \div 2
             c == check_month_sync(V, mid, st)
         IN  IF c.hit
             THEN binary_search_last_Lower_loop(V, left, mid - 1, mid, c.st)
             ELSE binary_search_last_Lower_loop(V, mid + 1, right, last_valid, c.st)
    ELSE [result |-> last_valid, st |-> st]

binary_search_last_Lower(V, left, right, st) ==
    binary_search_last_Lower_loop(V, left, right, left, st)

binary_search_last(V, left, right, st) ==
    binary_search_last_loop(V, left, right, left, st)

first_common_points == <<1, 10, 20, 30, 40, 50, 60, 70, 80, 86>>
last_common_points == <<86, 80, 70, 60, 50, 40, 30, 20, 10, 1>>

SetMin(S) == CHOOSE x \in S : \A y \in S : x <= y
SetMax(S) == CHOOSE x \in S : \A y \in S : x >= y

\* find_first_valid_month_code, the linear fallback: for month in
\* range(min_month, max_search), return the first month whose check is True,
\* else -1.  The cache changes only at a hit, which ends the loop, so every
\* check of the loop is made against the cache the loop starts with; the
\* months before the hit are not cached and are each requested once.
first_linear(V, min_month, st) ==
    LET hits == {m \in min_month..(max_search - 1) : check_month_sync(V, m, st).hit}
        stop == IF hits = {} THEN max_search - 1 ELSE SetMin(hits)
        missed == [i \in 1..(stop - min_month) |-> min_month + i - 1]
    IN  IF hits = {}
        THEN [result |-> -1,
              st |-> [cache |-> st.cache,
                      log |-> st.log \o [i \in 1..(stop - min_month + 1) |->
                                           min_month + i - 1]]]
        ELSE [result |-> stop,
              st |-> check_month_sync(V, stop,
                         [cache |-> st.cache, log |-> st.log \o missed]).st]

\* find_first_valid_month_code, the exponential search: the while loop, one
\* iteration per call; leaving the loop leads to the linear fallback.
RECURSIVE first_exponential(_, _, _, _, _)
first_exponential(V, min_month, current, bound, st) ==
    IF current + bound < max_search
    THEN LET c == check_month_sync(V, current + bound, st)
         IN  IF c.hit
             THEN binary_search_first(V, current, current + bound, c.st)
             ELSE LET current2 == current + bound
                      bound2 == bound * 2
                  IN  IF current2 + bound2 >= max_search
                      THEN LET c2 == check_month_sync(V, max_search, c.st)
                           IN  IF c2.hit
                               THEN binary_search_first(V, current2, max_search, c2.st)
                               ELSE first_linear(V, min_month, c2.st)
                      ELSE first_exponential(V, min_month, current2, bound2, c.st)
    ELSE first_linear(V, min_month, st)

\* The loop over the common points trying every point, also one below min_month.
RECURSIVE first_common_AnyPoint(_, _, _, _)
first_common_AnyPoint(V, min_month, k, st) ==
    IF k > Len(first_common_points)
    THEN first_exponential(V, min_month, min_month, 1, st)
    ELSE LET point == first_common_points[k]
             c == check_month_sync(V, point, st)
         IN  IF c.hit
             THEN binary_search_first(V, min_month, point, c.st)
             ELSE first_common_AnyPoint(V, min_month, k + 1, c.st)

\* find_first_valid_month_code, the loop over the common points from index k.
RECURSIVE first_common(_, _, _, _)
first_common(V, min_month, k, st) ==
    IF k > Len(first_common_points)
    THEN first_exponential(V, min_month, min_month, 1, st)
    ELSE LET point == first_common_points[k]
         IN  IF min_month <= point /\ point <= max_search
             THEN LET c == check_month_sync(V, point, st)
                  IN  IF c.hit
                      THEN binary_search_first(V, min_month, point, c.st)
                      ELSE first_common(V, min_month, k + 1, c.st)
             ELSE first_common(V, min_month, k + 1, st)

find_first_valid_month_code(V, min_month_arg) ==
    LET min_month == Max(1, min_month_arg)
        c == check_month_sync(V, min_month, NoProbes)
    IN  IF c.hit THEN [result |-> min_month, st |-> c.st]
        ELSE first_common(V, min_month, 1, c.st)

\* find_last_valid_month_code, the linear fallback: for month in
\* range(max_month, 0, -1), return the first month whose check is True, else -1.
last_linear(V, max_month, st) ==
    LET hits == {m \in 1..max_month : check_month_sync(V, m, st).hit}
        stop == IF hits = {} THEN 1 ELSE SetMax(hits)
        missed == [i \in 1..(max_month - stop) |-> max_month - i + 1]
    IN  IF hits = {}
        THEN [result |-> -1,
              st |-> [cache |-> st.cache,
                      log |-> st.log \o [i \in 1..(max_month - stop + 1) |->
                                           max_month - i + 1]]]
        ELSE [result |-> stop,
              st |-> check_month_sync(V, stop,
                         [cache |-> st.cache, log |-> st.log \o missed]).st]

RECURSIVE last_exponential(_, _, _, _, _)
last_exponential(V, max_month, current, bound, st) ==
    IF current - bound > 0
    THEN LET c == check_month_sync(V, current - bound, st)
         IN  IF c.hit
             THEN binary_search_last(V, current - bound, current - 1, c.st)
             ELSE LET current2 == current - bound
                      bound2 == bound * 2
                  IN  IF current2 - bound2 <= 0
                      THEN LET c2 == check_month_sync(V, 1, c.st)
                           IN  IF c2.hit
                               THEN binary_search_last(V, 1, current2 - 1, c2.st)
                               ELSE last_linear(V, max_month, c2.st)
                      ELSE last_exponential(V, max_month, current2, bound2, c.st)
    ELSE last_linear(V, max_month, st)

RECURSIVE last_common(_, _, _, _)
last_common(V, max_month, k, st) ==
    IF k > Len(last_common_points)
    THEN last_exponential(V, max_month, max_month, 1, st)
    ELSE LET point == last_common_points[k]
         IN  IF point <= max_month
             THEN LET c == check_month_sync(V, point, st)
                  IN  IF c.hit
                      THEN binary_search_last(V, point, max_month - 1, c.st)
                      ELSE last_common(V, max_month, k + 1, c.st)
             ELSE last_common(V, max_month, k + 1, st)

find_last_valid_month_code(V, max_month) ==
    LET c == check_month_sync(V, max_month, NoProbes)
    IN  IF c.hit THEN [result |-> max_month, st |-> c.st]
        ELSE last_common(V, max_month, 1, c.st)

\* A find call when the requests for the month codes of F fail every time.
\* check_url_sync re-raises the exception of requests.get, its retry
\* decorator gives up after stop_after_attempt attempts and raises, and
\* neither check_month_sync, the binary searches nor the finders catch
\* anything: the call runs as run does, up to its first request for a code
\* of F, makes that request stop_after_attempt times, and raises.
with_failures(run, F) ==
    LET log == run.st.log
        failing == {k \in DOMAIN log : log[k] \in F}
        first == SetMin(failing)
    IN  IF failing = {}
        THEN [raised |-> FALSE, result |-> run.result, log |-> log]
        ELSE [raised |-> TRUE, result |-> run.result,
              log |-> SubSeq(log, 1, first - 1)
                        \o [a \in 1..stop_after_attempt |-> log[first]]]

Intervals == {a..b : a \in 1..MaxMonth, b \in 1..MaxMonth}

\* One find call on a manufacturer whose existing month codes are an
\* interval or none: find_first from any min_month up to the interval,
\* find_last from any max_month down to it.
FindInit ==
    /\ fValid \in Intervals
    /\ fWhich \in {"first", "last"}
    /\ fBound \in 0..MaxMonth
    /\ IF fWhich = "first"
       THEN \A m \in fValid : fBound <= m
       ELSE fBound >= 1 /\ \A m \in fValid : fBound >= m
    /\ fFail = {}
    /\ fPc = "call"
    /\ fResult = 0
    /\ fLog = <<>>

FindFirst ==
    /\ fWhich = "first"
    /\ fPc = "call"
    /\ LET r == with_failures(find_first_valid_month_code(fValid, fBound), fFail)
       IN  /\ fPc' = IF r.raised THEN "raised" ELSE "done"
           /\ fResult' = IF r.raised THEN fResult ELSE r.result
           /\ fLog' = r.log
    /\ UNCHANGED <<fValid, fWhich, fBound, fFail>>
    /\ UNCHANGED <<jobVars, subVars, fetchVars>>

FindLast ==
    /\ fWhich = "last"
    /\ fPc = "call"
    /\ LET r == with_failures(find_last_valid_month_code(fValid, fBound), fFail)
       IN  /\ fPc' = IF r.raised THEN "raised" ELSE "done"
           /\ fResult' = IF r.raised THEN fResult ELSE r.result
           /\ fLog' = r.log
    /\ UNCHANGED <<fValid, fWhich, fBound, fFail>>
    /\ UNCHANGED <<jobVars, subVars, fetchVars>>

\* One find call on a manufacturer whose existing month codes have gaps: up
\* to two runs of codes between the points of GapPoints, and any min_month or
\* max_month, also one beyond existing codes.
GapPoints == {1, 7, 10, 37, 55, 86, 93, MaxMonth}

GapSets == {(a..b) \cup (c..d) : a \in GapPoints, b \in GapPoints,
                                 c \in GapPoints, d \in GapPoints}

FindGapInit ==
    /\ fValid \in GapSets
    /\ fWhich \in {"first", "last"}
    /\ fBound \in 0..MaxMonth
    /\ fWhich = "last" => fBound >= 1
    /\ fFail = {}
    /\ fPc = "call"
    /\ fResult = 0
    /\ fLog = <<>>

\* One find call on a site where the requests for some month codes fail
\* every time: for one code, or for all of them.
FailureChoices == {{}, 1..MaxMonth} \cup {{m} : m \in 1..MaxMonth}

FindFailInit ==
    /\ fValid \in {{}, 5..12, 40..60}
    /\ fWhich \in {"first", "last"}
    /\ fBound = IF fWhich = "first" THEN 1 ELSE max_allowed_month
    /\ fFail \in FailureChoices
    /\ fPc = "call"
    /\ fResult = 0
    /\ fLog = <<>>

FindIdle ==
    /\ fValid = {}
    /\ fWhich = "first"
    /\ fBound = 1
    /\ fFail = {}
    /\ fPc = "call"
    /\ fResult = 0
    /\ fLog = <<>>

\* ------------------------------------------------------- job submission

TheOne(S) == CHOOSE x \in S : TRUE

\* The start month of one manufacturer: the explicit one when given, else
\* find_first_valid_month_code(code, 1).
resolve_start(explicit, V) ==
    IF explicit # {} THEN TheOne(explicit)
    ELSE find_first_valid_month_code(V, 1).result

\* The end month of one manufacturer: the explicit one when given, else
\* find_last_valid_month_code(code, 86).
resolve_end(explicit, V) ==
    IF explicit # {} THEN TheOne(explicit)
    ELSE find_last_valid_month_code(V, max_allowed_month).result

\* One URL per month code from start to end, ascending; none when end < start.
month_urls(code, start, end) ==
    [i \in 1..(end - start + 1) |-> <<code, start + i - 1>>]

\* create_manufacturer_job, the loop over request.manufacturer_codes from
\* index k: the range is resolved, recorded, and its URLs appended.  Nothing
\* in the loop raises for a range of -1 or for an end month above 86.
RECURSIVE manufacturer_loop(_, _, _, _, _, _, _)
manufacturer_loop(codes, start_code, end_code, valid, k, ranges, all_urls) ==
    IF k > Len(codes)
    THEN [outcome |-> "created", ranges |-> ranges, urls |-> all_urls]
    ELSE LET code == codes[k]
             start_month == resolve_start(start_code, valid[code])
             end_month == resolve_end(end_code, valid[code])
         IN  manufacturer_loop(codes, start_code, end_code, valid, k + 1,
                 Append(ranges, [code |-> code, start |-> start_month, end |-> end_month]),
                 all_urls \o month_urls(code, start_month, end_month))

\* create_manufacturer_job: the job is created from all_urls and started.
create_manufacturer_job(codes, start_code, end_code, valid) ==
    manufacturer_loop(codes, start_code, end_code, valid, 1, <<>>, <<>>)

\* The ceiling check of run_scraper_job.
ExceedsCeiling(end_month) == end_month > max_allowed_month

\* run_scraper_job, the loop over request.manufacturer_codes from index k: an
\* end month above 86 fails the job and returns before any URL is processed.
RECURSIVE scraper_loop(_, _, _, _, _, _, _)
scraper_loop(codes, start, end, valid, k, ranges, urls_acc) ==
    IF k > Len(codes)
    THEN [outcome |-> "created", ranges |-> ranges, urls |-> urls_acc]
    ELSE LET code == codes[k]
             start_month == resolve_start(start, valid[code])
             end_month == resolve_end(end, valid[code])
             ranges2 == Append(ranges,
                           [code |-> code, start |-> start_month, end |-> end_month])
         IN  IF ExceedsCeiling(end_month)
             THEN [outcome |-> "rejected", ranges |-> ranges2, urls |-> <<>>]
             ELSE scraper_loop(codes, start, end, valid, k + 1, ranges2,
                               urls_acc \o month_urls(code, start_month, end_month))

run_scraper_job(codes, start, end, valid) ==
    scraper_loop(codes, start, end, valid, 1, <<>>, <<>>)

Manufacturers == {1, 2}
CodeLists == {<<1>>, <<2>>, <<1, 2>>, <<2, 1>>}
ExplicitStarts == {{}, {1}, {5}}
ExplicitEnds == {{}, {4}, {12}, {max_allowed_month}, {max_allowed_month + 1}}
ValidChoices == {{}, 5..12, 1..max_allowed_month, 80..95}

SubmitInit ==
    /\ sPath \in {"manufacturer", "scraper"}
    /\ sCodes \in CodeLists
    /\ sStart \in ExplicitStarts
    /\ sEnd \in ExplicitEnds
    /\ sValid \in [Manufacturers -> ValidChoices]
    /\ sPc = "call"
    /\ sOutcome = "none"
    /\ sRanges = <<>>
    /\ sUrls = <<>>

SubmitIdle ==
    /\ sPath = "manufacturer"
    /\ sCodes = <<1>>
    /\ sStart = {}
    /\ sEnd = {}
    /\ sValid = [m \in Manufacturers |-> {}]
    /\ sPc = "call"
    /\ sOutcome = "none"
    /\ sRanges = <<>>
    /\ sUrls = <<>>

SubmitManufacturer ==
    /\ sPath = "manufacturer"
    /\ sPc = "call"
    /\ LET r == create_manufacturer_job(sCodes, sStart, sEnd, sValid)
       IN  sOutcome' = r.outcome /\ sRanges' = r.ranges /\ sUrls' = r.urls
    /\ sPc' = "done"
    /\ UNCHANGED <<sPath, sCodes, sStart, sEnd, sValid>>
    /\ UNCHANGED <<jobVars, findVars, fetchVars>>

SubmitScraper ==
    /\ sPath = "scraper"
    /\ sPc = "call"
    /\ LET r == run_scraper_job(sCodes, sStart, sEnd, sValid)
       IN  sOutcome' = r.outcome /\ sRanges' = r.ranges /\ sUrls' = r.urls
    /\ sPc' = "done"
    /\ UNCHANGED <<sPath, sCodes, sStart, sEnd, sValid>>
    /\ UNCHANGED <<jobVars, findVars, fetchVars>>

\* ------------------------------------------------- fetch and extraction

\* What the site does with one request: the page, an error that a later
\* request may not meet (network error, 5xx), or 404.
Answers == {"ok", "transient", "not_found"}

\* What extract_data_from_content returns for a page: the data, or
\* {"error": ...} (it catches every exception).
Extracts == {"ok", "error"}

\* The body of scrape_url_content for one request: every exception of the
\* request is caught and returned as {"content": None, "error": ...}; the
\* body never raises.
scrape_body(answer) ==
    [raised |-> FALSE, error |-> answer # "ok"]

\* scrape_url_content: the retry decorator calls the body again only when it
\* raised, up to scrape_attempts calls.  attempt is the call being made.
RECURSIVE scrape_url_content(_, _)
scrape_url_content(answers, attempt) ==
    LET r == scrape_body(answers[attempt])
    IN  IF r.raised /\ attempt < scrape_attempts
        THEN scrape_url_content(answers, attempt + 1)
        ELSE [raised |-> r.raised, error |-> r.error, attempts |-> attempt]

\* process_urls([url], data_points): process_single_url of the scraper, then
\* {"value": [result], "errors": None} or {"value": [], "errors": [...]}.
process_urls(answers, extract) ==
    LET page == scrape_url_content(answers, 1)
        failed == page.raised \/ page.error \/ extract = "error"
    IN  [outcome |-> IF failed THEN "empty" ELSE "value",
         attempts |-> page.attempts]

FetchInit ==
    /\ tAnswers \in [1..scrape_attempts -> Answers]
    /\ tExtract \in Extracts
    /\ tJob \in {"in_progress", "cancelled"}
    /\ tPc = "call"
    /\ tAttempts = 0
    /\ tStatus = "in_progress"

FetchIdle ==
    /\ tAnswers = [k \in 1..scrape_attempts |-> "ok"]
    /\ tExtract = "ok"
    /\ tJob = "in_progress"
    /\ tPc = "call"
    /\ tAttempts = 0
    /\ tStatus = "in_progress"

\* process_single_url of start_job for one admitted job_url: process_urls,
\* then the status it writes.
FetchTask ==
    /\ tPc = "call"
    /\ LET r == process_urls(tAnswers, tExtract)
       IN  /\ tAttempts' = r.attempts
           /\ tStatus' = ResultStatus(tJob, r.outcome)
    /\ tPc' = "done"
    /\ UNCHANGED <<tAnswers, tExtract, tJob>>
    /\ UNCHANGED <<jobVars, findVars, subVars>>

\* ---------------------------------------------------------- specification

JobInit ==
    /\ jobStatus = "none"
    /\ urls = <<>>
    /\ scraped = <<>>
    /\ total_urls = 0
    /\ completed_urls = 0
    /\ progress_percentage = 0
    /\ startView = get_job_status("none", <<>>)
    /\ taskPc = <<>>
    /\ passPc = "idle"
    /\ cancelLog = <<>>
    /\ createRet = "none"
    /\ raised = {}
    /\ retryPc = "idle"
    /\ retryList = <<>>
    /\ retryIdx = 0
    /\ retryCompleted = 0
    /\ retryLog = <<>>
    /\ admits = <<>>
    /\ startView2 = get_job_status("none", <<>>)
    /\ taskPc2 = <<>>
    /\ passPc2 = "idle"

vars == <<jobVars, findVars, subVars, fetchVars>>

Init == JobInit /\ FindIdle /\ SubmitIdle /\ FetchIdle

Next ==
    \/ \E n \in 0..MaxTasks : CreateJob(n)
    \/ \E i \in DOMAIN taskPc : Admit(i)
    \/ \E i \in DOMAIN taskPc, o \in Outcomes : Finish(i, o)
    \/ Complete
    \/ CancelJob

Spec == Init /\ [][Next]_vars

\* The steps of the start_job pass.  The event loop runs every coroutine that
\* is ready and process_urls returns or raises in the end, so a pass that can
\* take a step takes one.
PassStep ==
    \/ \E i \in DOMAIN taskPc : Admit(i)
    \/ \E i \in DOMAIN taskPc, o \in Outcomes : Finish(i, o)
    \/ Complete

\* One job with more job_urls than the gate lets in, its pass, and at most
\* one cancel_job call.
CancelOnce == cancelLog = <<>> /\ CancelJob

FairNext ==
    \/ CreateJob(MaxTasks)
    \/ PassStep
    \/ CancelOnce

SpecFair == Init /\ [][FairNext]_vars /\ WF_vars(PassStep)

\* One job whose creation may fail at either insert, then its pass and
\* cancel_job.
CreateFaultNext ==
    \/ \E n \in 0..MaxOpsTasks : CreateJob(n)
    \/ \E n \in 1..MaxOpsTasks, fault \in CreateFaults : CreateJobFault(n, fault)
    \/ PassStep
    \/ CancelJob

SpecCreateFault == Init /\ [][CreateFaultNext]_vars

\* Every operation on one job: the start_job pass, cancel_job and
\* retry_failed_urls, interleaved at their suspension points.
OpsNext ==
    \/ \E n \in 0..MaxOpsTasks : CreateJob(n)
    \/ \E i \in DOMAIN taskPc : Admit(i)
    \/ \E i \in DOMAIN taskPc, o \in Outcomes : Finish(i, o)
    \/ Complete
    \/ CancelJob
    \/ RetryStart
    \/ \E o \in Outcomes : RetryStep(o)

SpecOps == Init /\ [][OpsNext]_vars

\* The end-to-end scenario: one job of ScenarioTasks URLs, created, started
\* and left to run to its end.
ScenarioNext ==
    \/ CreateJob(ScenarioTasks)
    \/ \E i \in DOMAIN taskPc : Admit(i)
    \/ \E i \in DOMAIN taskPc, o \in Outcomes : Finish(i, o)
    \/ Complete

SpecScenario == Init /\ [][ScenarioNext]_vars

WriteFaultNext ==
    \/ \E n \in 1..MaxOpsTasks : CreateJob(n)
    \/ \E i \in DOMAIN taskPc : Admit(i)
    \/ \E i \in DOMAIN taskPc, o \in Outcomes : Finish(i, o)
    \/ \E i \in DOMAIN taskPc, handlerOk \in BOOLEAN : FinishWriteFails(i, handlerOk)
    \/ \E writeOk \in BOOLEAN : GatherRaises(writeOk)
    \/ Complete
    \/ CancelJob

SpecWriteFault == Init /\ [][WriteFaultNext]_vars

\* One job with more job_urls than the gate lets in, whose every process_urls
\* call returns a record, its pass, at most one cancel_job call, and a second
\* start_job call with its pass.
RestartNext ==
    \/ CreateJob(MaxTasks)
    \/ \E i \in DOMAIN taskPc : Admit(i)
    \/ \E i \in DOMAIN taskPc : Finish(i, "value")
    \/ Complete
    \/ CancelOnce
    \/ StartAgain
    \/ \E i \in DOMAIN taskPc2 : AdmitAgain(i)
    \/ \E i \in DOMAIN taskPc2 : FinishAgain(i, "value")
    \/ GatherRaisesAgain
    \/ CompleteAgain

SpecRestart == Init /\ [][RestartNext]_vars

FindNext == FindFirst \/ FindLast

FindCallInit == JobInit /\ FindInit /\ SubmitIdle /\ FetchIdle

SpecFind == FindCallInit /\ [][FindNext]_vars

FindGapCallInit == JobInit /\ FindGapInit /\ SubmitIdle /\ FetchIdle

SpecFindGap == FindGapCallInit /\ [][FindNext]_vars

ProbeFailInit == JobInit /\ FindFailInit /\ SubmitIdle /\ FetchIdle

SpecProbeFail == ProbeFailInit /\ [][FindNext]_vars

FetchCallInit == JobInit /\ FindIdle /\ SubmitIdle /\ FetchInit

SpecFetch == FetchCallInit /\ [][FetchTask]_vars

SubmitNext == SubmitManufacturer \/ SubmitScraper

SubmitCallInit == JobInit /\ FindIdle /\ SubmitInit /\ FetchIdle

SpecSubmit == SubmitCallInit /\ [][SubmitNext]_vars

\* ------------------------------------------------------------------ claims

AllowedTransitions ==
    {<<"pending", "in_progress">>, <<"in_progress", "completed">>,
     <<"in_progress", "failed">>, <<"pending", "cancelled">>,
     <<"in_progress", "cancelled">>}

\* C1: in a start_job pass running concurrently with cancel_job, no job_url is
\* dropped, a job_url that is completed, failed or cancelled never changes
\* status again, and the only status changes are pending -> in_progress,
\* in_progress -> completed, in_progress -> failed and pending or
\* in_progress -> cancelled.
C1_TaskTransitions ==
    [][/\ DOMAIN urls \subseteq DOMAIN urls'
       /\ \A i \in DOMAIN urls :
            urls'[i] # urls[i] => <<urls[i], urls'[i]>> \in AllowedTransitions]_vars

\* A pass that was cancelled while it ran and ended with job_urls in each
\* terminal status.
C1_Witness ==
    /\ passPc = "done"
    /\ Len(cancelLog) >= 1
    /\ Count(urls, {"completed"}) >= 1
    /\ Count(urls, {"failed"}) >= 1
    /\ Count(urls, {"cancelled"}) >= 1

\* C2: a job's status is completed only if every job_url of the job is
\* completed.
C2_CompletedOnlyIfAllCompleted ==
    jobStatus = "completed" => \A i \in DOMAIN urls : urls[i] = "completed"

\* C3: once the job's status is cancelled it stays cancelled in every later
\* state of the start_job pass.
C3_CancelledIsTerminal ==
    [][jobStatus = "cancelled" => jobStatus' = "cancelled"]_vars

\* C4: a job with at least one job_url and none cancelled, whose start_job
\* pass has run to its end with every job_url completed or failed, is
\* completed when all are completed, partial_success when some are completed
\* and some failed, and failed when all are failed.
C4_FinalClassification ==
    (/\ passPc = "done"
     /\ Len(urls) >= 1
     /\ Count(urls, {"cancelled"}) = 0
     /\ Count(urls, {"completed", "failed"}) = Len(urls))
    => /\ Count(urls, {"completed"}) = Len(urls) => jobStatus = "completed"
       /\ (Count(urls, {"completed"}) >= 1 /\ Count(urls, {"failed"}) >= 1)
            => jobStatus = "partial_success"
       /\ Count(urls, {"failed"}) = Len(urls) => jobStatus = "failed"

\* A finished pass of three job_urls, two completed and one failed.
C4_Witness ==
    /\ passPc = "done"
    /\ Len(urls) = 3
    /\ Count(urls, {"completed"}) = 2
    /\ Count(urls, {"failed"}) = 1
    /\ jobStatus = "partial_success"

\* C10: a cancel_job call on a job whose status is neither pending nor
\* in_progress does not return success and writes nothing: the job status,
\* every job_url status and the stored results are the same after the call.
C10_RefusedCancelWritesNothing ==
    [][(Len(cancelLog') = Len(cancelLog) + 1 /\ jobStatus \notin {"pending", "in_progress"})
       => /\ cancelLog'[Len(cancelLog')] # "success"
          /\ jobStatus' = jobStatus
          /\ urls' = urls
          /\ scraped' = scraped]_vars

\* A second cancel_job, refused, after a first one that succeeded.
C10_Witness ==
    /\ cancelLog = <<"success", "refused">>
    /\ jobStatus = "cancelled"

\* The job was written cancelled by an earlier cancel_job call.
WasCancelled == \E k \in DOMAIN cancelLog : cancelLog[k] \in {"success", "error"}

\* C11: when cancel_job returns success the job's status is cancelled and no
\* job_url of the job is pending or in_progress, and after a cancel_job that
\* returned success no job_url of the job becomes in_progress.
C11_CancelSuccessStopsTasks ==
    [][/\ (/\ Len(cancelLog') = Len(cancelLog) + 1
           /\ cancelLog'[Len(cancelLog')] = "success")
          => /\ jobStatus' = "cancelled"
             /\ Count(urls', {"pending", "in_progress"}) = 0
       /\ (\E k \in DOMAIN cancelLog : cancelLog[k] = "success")
          => \A i \in DOMAIN urls :
                (i \in DOMAIN urls' /\ urls[i] # "in_progress")
                    => urls'[i] # "in_progress"]_vars

\* The job_urls that a step of retry_failed_urls may write: the failed_urls
\* of the call after the step.
Retried == {retryList'[k] : k \in DOMAIN retryList'}

\* C12: the failed_urls of a retry_failed_urls call were all failed when the
\* job was read, and a step of the call changes neither the status nor the
\* stored data of any other job_url: what was completed or cancelled at the
\* read is the same after the retry.
C12_RetryIsolation ==
    [][(retryPc' # retryPc \/ retryIdx' # retryIdx \/ retryLog' # retryLog)
       => /\ retryList' # retryList => \A i \in Retried : urls[i] = "failed"
          /\ \A i \in DOMAIN urls \ Retried :
                urls'[i] = urls[i] /\ scraped'[i] = scraped[i]]_vars

\* A retry that completed the one failed job_url of a job that also has a
\* cancelled job_url and a job_url completed, with its data, by the pass.
C12_Witness ==
    /\ retryLog = <<"completed">>
    /\ Len(retryList) = 1
    /\ Count(urls, {"cancelled"}) = 1
    /\ Count(urls, {"completed"}) = 2
    /\ \A i \in DOMAIN urls : urls[i] = "completed" => scraped[i] = 1

\* C13: for a job that exists, the counts of completed, failed, cancelled,
\* pending and in_progress job_urls add up to the total_urls that
\* get_job_progress reports, and the percentage it reports is within 0..100.
C13_AggregateConsistency ==
    jobStatus # "none"
    => LET view == get_job_status(jobStatus, urls)
           p == get_job_progress(view)
       IN  /\ p.completed + p.failed + Count(view.job_urls, {"cancelled"})
                + p.pending + p.in_progress = p.total_urls
           /\ p.percentage \in 0..100

\* C14: when the start_job pass of the job of ScenarioTasks (8) job_urls has
\* run to its end with all but two job_urls completed and two failed, the job
\* is partial_success and get_job_progress reports those counts, nothing
\* pending or in_progress, and a percentage of 100.
C14_ScenarioSnapshot ==
    (/\ passPc = "done"
     /\ Len(urls) = ScenarioTasks
     /\ Count(urls, {"completed"}) = ScenarioTasks - 2
     /\ Count(urls, {"failed"}) = 2)
    => LET p == get_job_progress(get_job_status(jobStatus, urls))
       IN  /\ jobStatus = "partial_success"
           /\ p.completed = ScenarioTasks - 2
           /\ p.failed = 2
           /\ p.pending = 0
           /\ p.in_progress = 0
           /\ p.percentage = 100

\* C15: in every state of a start_job pass at most MAX_CONCURRENT (5) tasks
\* are inside the admission gate, and only those are in process_urls.
C15_GateCeiling ==
    /\ Cardinality(InGate) <= MAX_CONCURRENT
    /\ \A i \in DOMAIN taskPc : urls[i] = "in_progress" => i \in InGate

\* The gate is full and a task is waiting outside it.
C15_Witness ==
    /\ Cardinality(InGate) = MAX_CONCURRENT
    /\ \E i \in DOMAIN taskPc : taskPc[i] = "waiting"

\* C16: a job_url whose process_urls raised is failed, and once a task has
\* raised the pass still runs to its end: gather returns, process_all writes
\* the final status, and every job_url is completed, failed or cancelled.
C16_RaiseIsContained ==
    /\ [](\A i \in raised : urls[i] = "failed")
    /\ (raised # {}) ~> (/\ passPc = "done"
                         /\ \A i \in DOMAIN urls :
                               urls[i] \in {"completed", "failed", "cancelled"})

\* A finished pass of a job with more job_urls than the gate lets in, one of
\* which raised while others completed.
C16_Witness ==
    /\ passPc = "done"
    /\ Len(urls) > MAX_CONCURRENT
    /\ Cardinality(raised) = 1
    /\ Count(urls, {"completed"}) = Len(urls) - 1

\* C18: once create_job has run, either there is no job row, or the job has
\* as many job_urls as its total_urls, the number of URLs submitted, all of
\* them pending when create_scrape_job did not return.
C18_CreationAtomic ==
    (createRet # "none" /\ jobStatus # "none")
    => /\ Len(urls) = total_urls
       /\ createRet = "raised" => \A i \in DOMAIN urls : urls[i] = "pending"

\* C17: after the job was written cancelled, no job_url goes from pending to
\* in_progress.
C17_NoAdmissionAfterCancel ==
    [][WasCancelled
       => \A i \in DOMAIN urls :
            ~(i \in DOMAIN urls' /\ urls[i] = "pending" /\ urls'[i] = "in_progress")]_vars

\* C5: for a manufacturer whose existing month codes are one interval [a,b]
\* within the search ceiling (b <= max_search), find_first_valid_month_code
\* returns a for every min_month <= a.
C5_FindFirstReturnsFirst ==
    (/\ fWhich = "first"
     /\ fPc = "done"
     /\ fValid # {}
     /\ \A m \in fValid : m <= max_search)
    => fResult = SetMin(fValid)

\* C6: for a manufacturer whose existing month codes are one interval [a,b],
\* find_last_valid_month_code returns b for every max_month >= b.
C6_FindLastReturnsLast ==
    (fWhich = "last" /\ fPc = "done" /\ fValid # {})
    => fResult = SetMax(fValid)

\* The months 5..12 exist and find_last_valid_month_code(., 50) returned 12
\* after more than one request.
C6_Witness ==
    /\ fWhich = "last"
    /\ fValid = 5..12
    /\ fBound = 50
    /\ fResult = 12
    /\ Len(fLog) > 1

\* C7: when no month code exists, each finder returns -1 and makes no more
\* requests than its search ceiling: max_search for find_first, max_month
\* for find_last.
C7_NoValidWithinCeiling ==
    (fValid = {} /\ fPc = "done")
    => /\ fResult = -1
       /\ Len(fLog) <= (IF fWhich = "first" THEN max_search ELSE fBound)

\* The manufacturers whose range discovery returned -1.
NotFoundCodes ==
    {sRanges[k].code : k \in {j \in DOMAIN sRanges :
        \/ sStart = {} /\ sRanges[j].start = -1
        \/ sEnd = {} /\ sRanges[j].end = -1}}

\* C19: a find call one of whose requests kept failing returns -1; no
\* exception leaves the finder.
C19_ProbeFailureIsNotFound ==
    (fPc # "call" /\ \E k \in DOMAIN fLog : fLog[k] \in fFail)
    => fPc = "done" /\ fResult = -1

\* The number of requests of a scan of every month code between the bound
\* passed and the end of the search: min_month..max_search for find_first,
\* max_month down to 1 for find_last.
FullScan ==
    IF fWhich = "first" THEN max_search - Max(1, fBound) + 1 ELSE fBound

\* C20: for a manufacturer whose existing month codes are one interval [a,b]
\* with b - a >= 10, a find call makes fewer requests than the scan of every
\* month code between its bound and the end of the search.
C20_FewerThanFullScan ==
    (/\ fPc = "done"
     /\ fValid # {}
     /\ SetMax(fValid) - SetMin(fValid) >= 10)
    => Len(fLog) < FullScan

\* C8: when range discovery returned -1 for a manufacturer, the submission is
\* rejected, and no URL is generated for that manufacturer nor for a month
\* code below 1.
C8_NotFoundRejected ==
    (sPc = "done" /\ NotFoundCodes # {})
    => /\ sOutcome = "rejected"
       /\ \A k \in DOMAIN sUrls : sUrls[k][1] \notin NotFoundCodes /\ sUrls[k][2] >= 1

\* C9: on each submission path, when the resolved end month of a
\* manufacturer is above 86 the submission is rejected and no URL is
\* generated for a month code above 86.
C9_CeilingRejected ==
    (sPc = "done" /\ \E k \in DOMAIN sRanges : sRanges[k].end > max_allowed_month)
    => /\ sOutcome = "rejected"
       /\ \A k \in DOMAIN sUrls : sUrls[k][2] <= max_allowed_month

\* The URLs generated for one manufacturer, in the order of the task list.
BlockOf(code) == SelectSeq(sUrls, LAMBDA u : u[1] = code)

\* C21: the task list of a created job holds, for each manufacturer
\* requested, the month codes of its resolved range once each in ascending
\* order, and the manufacturers follow one another in ascending code order.
C21_TaskListOrder ==
    (sPc = "done" /\ sOutcome = "created")
    => /\ \A k \in DOMAIN sRanges :
            LET r == sRanges[k]
            IN  BlockOf(r.code) = month_urls(r.code, r.start, r.end)
       /\ \A i \in DOMAIN sUrls, j \in DOMAIN sUrls :
            i < j => sUrls[i][1] <= sUrls[j][1]
\* C22: in every state the counters stored in the job row satisfy
\* completed_urls <= total_urls and progress_percentage =
\* completed_urls / total_urls * 100, 0 when total_urls is 0.
C22_StoredCountersConsistent ==
    /\ completed_urls <= total_urls
    /\ progress_percentage =
         IF total_urls > 0 THEN (completed_urls * 100) \div total_urls ELSE 0

\* A retry of two failed job_urls after the first of them completed: 1 of 2.
C22_Witness ==
    /\ retryPc = "scraping"
    /\ total_urls = 2
    /\ completed_urls = 1
    /\ progress_percentage = 50
\* The first attempt, of the scrape_attempts allowed, that the site answers
\* with the page when every attempt before it met a transient error; 0 when
\* there is none.
FirstGoodAttempt ==
    LET good == {k \in 1..scrape_attempts :
                    /\ tAnswers[k] = "ok"
                    /\ \A j \in 1..(k - 1) : tAnswers[j] = "transient"}
    IN  IF good = {} THEN 0 ELSE SetMin(good)

\* C23: a fetch that meets a transient error is attempted again, up to
\* scrape_attempts (3) attempts: a job_url whose fetch succeeds at one of
\* them, and whose extraction succeeds, is completed; one whose attempts all
\* meet transient errors is failed after the last of them; a 404 is not
\* attempted again.
C23_TransientRetried ==
    (tPc = "done" /\ tJob = "in_progress")
    => /\ (FirstGoodAttempt > 0 /\ tExtract = "ok")
            => tStatus = "completed" /\ tAttempts = FirstGoodAttempt
       /\ (\A k \in 1..scrape_attempts : tAnswers[k] = "transient")
            => tStatus = "failed" /\ tAttempts = scrape_attempts
       /\ tAnswers[1] = "not_found" => tStatus = "failed" /\ tAttempts = 1
\* C24: within one find call no month code is requested from the site more
\* than once.
C24_NoRepeatedRequest ==
    fPc = "done" => Cardinality({fLog[k] : k \in DOMAIN fLog}) = Len(fLog)
\* The job status that the job state machine gives a set of job_urls:
\* completed when all are completed, failed when none is, partial_success
\* otherwise.
WholeSetStatus(u) ==
    IF Count(u, {"completed"}) = Len(u) THEN "completed"
    ELSE IF Count(u, {"completed"}) = 0 THEN "failed"
    ELSE "partial_success"

\* C25: the job status that retry_failed_urls writes when it finishes is the
\* one the job state machine gives the whole set of job_urls of the job.
C25_RetryFinalStatus ==
    [][(retryPc = "scraping" /\ retryPc' = "idle")
       => jobStatus' = WholeSetStatus(urls')]_vars
\* C26: whatever month codes exist, with gaps or without, a result of a find
\* call other than -1 is a month code that was requested and exists; it is at
\* least min_month for find_first and at most max_month for find_last.
C26_ResultIsProbedHit ==
    (fPc = "done" /\ fResult # -1)
    => /\ fResult \in fValid
       /\ \E k \in DOMAIN fLog : fLog[k] = fResult
       /\ fWhich = "first" => fResult >= fBound
       /\ fWhich = "last" => fResult <= fBound

\* A find call over month codes with a gap that ended in a search past the gap.
C26_Witness ==
    /\ fPc = "done"
    /\ fResult # -1
    /\ \E m \in SetMin(fValid)..SetMax(fValid) : m \notin fValid
    /\ \E k \in DOMAIN fLog : fLog[k] \notin fValid
    /\ fResult # fBound
\* C27: in every state the total_urls stored in the job row is the number of
\* job_urls rows of the job.
C27_TotalIsTaskCount ==
    jobStatus # "none" => total_urls = Len(urls)
\* C28: whenever process_all writes a final job status, completed,
\* partial_success or failed, no job_url of the job is pending or in_progress,
\* also when a status write of a task has raised.
C28_FinalStatusAfterTasks ==
    [][(passPc = "gather" /\ passPc' \in {"done", "abandoned"})
       => Count(urls', {"pending", "in_progress"}) = 0]_vars
\* C29: over the start_job calls on one job, a second one while the first
\* runs included, each job_url is admitted to execution at most once and at
\* most one scraped_data row is stored for it.
C29_AdmittedOnce ==
    \A i \in DOMAIN urls : admits[i] <= 1 /\ scraped[i] <= 1
\* C30: a step of retry_failed_urls that marks its job_url completed, or counts
\* it as succeeded, stores a scraped_data row for it: a re-execution without a
\* result leaves the job_url failed and uncounted.
C30_RetryCompletedOnlyWithResult ==
    [][(retryPc = "scraping" /\ (retryIdx' > retryIdx \/ retryPc' = "idle"))
       => LET i == retryList[retryIdx]
          IN  (urls'[i] = "completed" \/ retryCompleted' > retryCompleted)
              => scraped'[i] > scraped[i]]_vars
====
